---- MODULE Spec2Model ----
(***************************************************************************)
(* r-cat: a netcat-style relay between the process's standard input and    *)
(* output and one TCP connection or UDP datagram flow.                     *)
(*                                                                         *)
(* The model follows src/src/main.rs (argument checks and dispatch),       *)
(* src/src/net/tcp.rs (client, listen) and src/src/net/udp.rs (client,     *)
(* listen).  The main thread's position is pc; every spawned task has its  *)
(* own position; the network, the peers, the user's input and the clock    *)
(* are the environment.                                                    *)
(*                                                                         *)
(* Time is discrete.  It is only observed when a timeout is configured:    *)
(* elapsed counts the ticks since the current wait (connect, accept or     *)
(* session join) began.  tokio::time::timeout polls the wrapped future     *)
(* before the timer, so a wait whose future is ready completes normally    *)
(* even when the deadline has been reached; the clock does not advance     *)
(* past an armed deadline before the waiting function has been resumed.    *)
(***************************************************************************)
EXTENDS Integers, Sequences, FiniteSets, TLC

\* ------------------------------------------------------------------ bounds
\* Total number of bytes the user supplies on local input.
MaxInput == 2
\* Largest configured timeout, in ticks.
MaxTimeout == 2
\* Number of datagrams the remote peers send on their own (UDP listener).
MaxDgrams == 2
\* Number of TCP clients that try to connect to the listening port.
MaxClients == 2
\* Number of reads, writes, sends and receives the environment makes fail.
MaxFaults == 1

\* ------------------------------------------------------- program constants
\* udp.rs: let mut buf = vec![0u8; 8192];  (send tasks)
SendBufLen == 8192
\* udp.rs: let mut buf = vec![0u8; 65536]; (receive tasks)
RecvBufLen == 65536

\* Option<T>: None is the empty sequence, Some(x) the sequence of x alone.
None == <<>>
Some(x) == <<x>>
Get(o) == o[1]
Bytes == {0, 1}
\* The clock is followed one tick beyond the largest timeout.
MaxTime == MaxTimeout + 1

\* Kinds of destination text: an IPv4 literal, a bracketed IPv6 literal, a
\* host name.  Only the literals parse as a SocketAddr once ":port" is added.
Hosts == {"ip4", "ip6", "name"}
PeerA == "A"
PeerB == "B"
Peers == {PeerA, PeerB}

\* cli.rs Args, restricted to the fields main.rs reads that change what the
\* program does (verbose only adds diagnostic lines).  The positional port
\* and the -p port get different values so that the choice between them
\* shows.  A timeout is a duration Duration::from_secs_f64 accepts.
ArgsSet ==
    [listen : BOOLEAN, udp : BOOLEAN,
     port : {None, Some(80)}, source_port : {None, Some(90)},
     destination : {None} \cup {Some(h) : h \in Hosts},
     timeout : {None} \cup {Some(t) : t \in 0 .. MaxTimeout}]

VARIABLES
    args,         \* the parsed command line (cli.rs Args), until main has read it
    pc,           \* position of the main thread
    called,       \* the entry point main called, "none" before
    host,         \* the host parameter handed to a client entry point
    port,         \* the port parameter handed to the entry point
    timeout,      \* the timeout parameter handed to the entry point
    result,       \* what the entry point returned: "none", "Ok" or an error text
    outcome,      \* the arm of the session wait taken: "none", "finished", "timed_out"
    main_result,  \* what main returned (the process result)
    netOps,       \* network operations attempted so far
    elapsed,      \* ticks since the current wait began
    connState,    \* tcp client: state of the connect attempt
    listener,     \* tcp listen: the TcpListener ("none", "open", "closed")
    backlog,      \* tcp listen: connections the kernel established, not yet accepted
    established,  \* tcp listen: connections the kernel ever established on the port
    accepted,     \* tcp listen: connections returned by accept
    bind_addr,    \* the local address bound, None before
    acq_time,     \* tcp: ticks the acquisition step (connect, accept) took
    holders,      \* owners of (a half of, or a reference to) the open endpoint
    write_task, read_task,      \* tcp: positions of the two copy tasks
    wbuf, rbuf,                 \* tcp: io::copy buffers (read, not yet written)
    w_read_done, r_read_done,   \* tcp: io::copy has seen end of input
    w_res, r_res,               \* tcp: what each io::copy returned
    send_task, recv_task,       \* udp: positions of the two tasks
    sbuf, dbuf,                 \* udp: chunk read / datagram received, in hand
    last_peer,                  \* udp listen: Mutex<Option<SocketAddr>> contents
    lock,                       \* udp listen: holder of the mutex, "free" when free
    opt_peer,                   \* udp listen: the send task's snapshot
    c2p, p2c,     \* network: in flight to the peer / to this process
    c2pFin,       \* this side has shut its write direction
    p2cFin,       \* the peer has closed
    inp,          \* everything read from local input so far
    stdin_eof,    \* local input has returned end of input
    out,          \* tcp: everything written to local output so far
    faults,       \* number of reads, writes, sends and receives that have failed
    sends,        \* udp: the send_to calls made, in order, each with its success
    recvd,        \* udp: the datagrams recv_from returned, in order
    writes,       \* udp: the write_all calls made on local output, in order,
                  \* each with its success
    drops,        \* udp listen: numbers of the chunks dropped for lack of a peer
    recorded,     \* udp listen: number of datagrams whose sender was recorded
    marks         \* udp listen, for the chunk in hand: datagrams received and
                  \* recorded when it was read and when its snapshot was taken

mainVars == <<args, pc, called, host, port, timeout, result, outcome, main_result>>
acqVars  == <<connState, listener, backlog, established, accepted, bind_addr, acq_time>>
tcpVars  == <<write_task, read_task, wbuf, rbuf, w_read_done, r_read_done, w_res, r_res>>
udpVars  == <<send_task, recv_task, sbuf, dbuf, last_peer, lock, opt_peer>>
netVars  == <<c2p, p2c, c2pFin, p2cFin>>
ioVars   == <<inp, stdin_eof, out, faults>>
logVars  == <<sends, recvd, writes, drops, recorded, marks>>

vars == <<mainVars, netOps, elapsed, acqVars, holders, tcpVars, udpVars,
          netVars, ioVars, logVars>>

\* ----------------------------------------------------------------- helpers
Prefix(s, n) == SubSeq(s, 1, n)
Suffix(s, n) == SubSeq(s, n + 1, Len(s))
IsPrefix(s, t) == Len(s) <= Len(t) /\ s = Prefix(t, Len(s))
Min(a, b) == IF a <= b THEN a ELSE b

\* All byte sequences of length 1 .. n.
Chunks(n) == UNION {[1 .. k -> Bytes] : k \in 1 .. n}

\* Total length of a sequence of chunks.
RECURSIVE SumLen(_)
SumLen(cs) == IF cs = <<>> THEN 0 ELSE Len(Head(cs)) + SumLen(Tail(cs))

NoMarks == [rcvRead |-> 0, recRead |-> 0, rcvSnap |-> 0, recSnap |-> 0]

\* The command line once main has read it: main.rs reads args once, at
\* lines 13-40, and hands on a host, a port and a timeout.
Consumed ==
    [listen |-> FALSE, udp |-> FALSE, port |-> None, source_port |-> None,
     destination |-> None, timeout |-> None]

\* The entry points of tcp.rs and the entry points of udp.rs.
IsTcp == called \in {"tcp::client", "tcp::listen"}
IsUdp == called \in {"udp::client", "udp::listen"}

\* The process has not exited: its tasks and its sockets still exist.
Alive == pc # "exit"

Init ==
    /\ args \in ArgsSet
    /\ pc = "main"
    /\ called = "none"
    /\ host = "none"
    /\ port = 0
    /\ timeout = None
    /\ result = "none"
    /\ outcome = "none"
    /\ main_result = "none"
    /\ netOps = {}
    /\ elapsed = 0
    /\ connState = "none"
    /\ listener = "none"
    /\ backlog = 0
    /\ established = 0
    /\ accepted = 0
    /\ bind_addr = None
    /\ acq_time = 0
    /\ holders = {}
    /\ write_task = "unspawned" /\ read_task = "unspawned"
    /\ wbuf = <<>> /\ rbuf = <<>>
    /\ w_read_done = FALSE /\ r_read_done = FALSE
    /\ w_res = "none" /\ r_res = "none"
    /\ send_task = "unspawned" /\ recv_task = "unspawned"
    /\ sbuf = <<>> /\ dbuf = None
    /\ last_peer = None
    /\ lock = "free"
    /\ opt_peer = None
    /\ c2p = <<>> /\ p2c = <<>>
    /\ c2pFin = FALSE /\ p2cFin = FALSE
    /\ inp = <<>>
    /\ stdin_eof = FALSE
    /\ out = <<>>
    /\ faults = 0
    /\ sends = <<>> /\ recvd = <<>> /\ writes = <<>> /\ drops = <<>>
    /\ recorded = 0
    /\ marks = NoMarks

\* -------------------------------------------------------------------- main
\* A listener that prefers the -p port to the positional port.
listen_port_swapped(a) == IF a.source_port # None THEN a.source_port ELSE a.port

\* main.rs:17-19  args.port.or(args.source_port)
listen_port(a) == IF a.port # None THEN a.port ELSE a.source_port

\* main.rs:20,32,35  the ok_or_else(...)? that makes main return early.
ConfigError(msg) ==
    /\ main_result' = msg
    /\ pc' = "exit"
    /\ UNCHANGED <<called, host, port, timeout, result>>

\* main.rs:23,25,38,40  the call of an entry point.
Call(fn, h, p) ==
    /\ called' = fn
    /\ host' = h
    /\ port' = p
    /\ timeout' = args.timeout
    /\ pc' = fn
    /\ UNCHANGED <<main_result, result>>

\* main.rs:10-42  the arguments are parsed, checked and acted on.
Main ==
    /\ pc = "main"
    /\ IF args.listen
         THEN IF listen_port(args) = None
                THEN ConfigError("listen mode requires a port (-p or positional)")
                ELSE Call(IF args.udp THEN "udp::listen" ELSE "tcp::listen",
                          "none", Get(listen_port(args)))
         ELSE IF args.destination = None
                THEN ConfigError("destination required in client mode")
                ELSE IF args.port = None
                       THEN ConfigError("port required in client mode")
                       ELSE Call(IF args.udp THEN "udp::client" ELSE "tcp::client",
                                 Get(args.destination), Get(args.port))
    /\ args' = Consumed
    /\ UNCHANGED <<outcome, netOps, elapsed, acqVars, holders, tcpVars,
                   udpVars, netVars, ioVars, logVars>>

\* What the return of an entry point does to its locals: the TcpListener and
\* the function's own reference to the UDP socket go out of scope.
DropLocals ==
    /\ listener' = IF listener = "open" THEN "closed" ELSE listener
    /\ holders' = holders \ {"fn"}

\* main.rs:23-44  `entry(...).await?; Ok(())`, then the runtime is dropped:
\* every task still running is cancelled and what it owns is released.
MainReturn ==
    /\ pc = "ret"
    /\ main_result' = result
    /\ pc' = "exit"
    /\ holders' = {}
    /\ write_task' = IF write_task \in {"unspawned", "done"} THEN write_task ELSE "cancelled"
    /\ read_task' = IF read_task \in {"unspawned", "done"} THEN read_task ELSE "cancelled"
    /\ send_task' = IF send_task \in {"unspawned", "done"} THEN send_task ELSE "cancelled"
    /\ recv_task' = IF recv_task \in {"unspawned", "done"} THEN recv_task ELSE "cancelled"
    /\ lock' = "free"
    /\ c2pFin' = (c2pFin \/ IsTcp)
    /\ UNCHANGED <<args, called, host, port, timeout, result, outcome, netOps, elapsed, acqVars,
                   wbuf, rbuf, w_read_done, r_read_done, w_res, r_res,
                   sbuf, dbuf, last_peer, opt_peer, c2p, p2c, p2cFin, ioVars, logVars>>

\* ------------------------------------------------------------------- timers
\* tcp.rs:26-27  the connect is wrapped in time::timeout only if one is set.
ConnectDeadline == timeout
\* tcp.rs:92-93
AcceptDeadline == timeout
\* A session wait that forgets the timer.
SessionDeadlineUnarmed == None

\* A session timer that is what the acquisition step left of the timeout.
SessionDeadlineRemaining ==
    IF timeout = None THEN None
    ELSE Some(IF acq_time < Get(timeout) THEN Get(timeout) - acq_time ELSE 0)

\* tcp.rs:60-61,123-124  udp.rs:80-81,164-165
SessionDeadline == timeout

CurrentDeadline ==
    CASE pc = "tcp_connect" -> ConnectDeadline
      [] pc = "tcp_accept"  -> AcceptDeadline
      [] pc = "session"     -> SessionDeadline
      [] OTHER              -> None

Expired == CurrentDeadline # None /\ elapsed >= Get(CurrentDeadline)

\* One tick of the clock while the main thread waits.
Tick ==
    /\ pc \in {"tcp_connect", "tcp_accept", "session"}
    /\ timeout # None
    /\ ~Expired
    /\ elapsed < MaxTime
    /\ elapsed' = elapsed + 1
    /\ UNCHANGED <<mainVars, netOps, acqVars, holders, tcpVars, udpVars,
                   netVars, ioVars, logVars>>

\* -------------------------------------------------------------- tcp::client
\* An entry point returns: its value, and its locals go out of scope.
Return(res) ==
    /\ result' = res
    /\ pc' = "ret"
    /\ DropLocals

\* tcp.rs:41-58 and 107-121  into_split, then the two tasks are spawned; each
\* task owns one half of the stream.
SpawnTcpTasks ==
    /\ holders' = {"write_task", "read_task"}
    /\ write_task' = "copy"
    /\ read_task' = "copy"
    /\ UNCHANGED <<wbuf, rbuf, w_read_done, r_read_done, w_res, r_res>>

\* tcp.rs:20-27  the connect future is created and awaited.
TcpClientStart ==
    /\ pc = "tcp::client"
    /\ connState' = "pending"
    /\ netOps' = netOps \cup {"connect"}
    /\ elapsed' = 0
    /\ pc' = "tcp_connect"
    /\ UNCHANGED <<args, called, host, port, timeout, result, outcome, main_result, listener,
                   backlog, established, accepted, bind_addr, holders, tcpVars,
                   udpVars, netVars, ioVars, logVars>>
    /\ UNCHANGED acq_time

\* The network completes the handshake.
NetConnectOk ==
    /\ Alive
    /\ connState = "pending"
    /\ connState' = "ok"
    /\ UNCHANGED <<mainVars, netOps, elapsed, listener, backlog, established,
                   accepted, bind_addr, holders, tcpVars, udpVars, netVars,
                   ioVars, logVars>>
    /\ UNCHANGED acq_time

\* The network refuses the connection (or the name does not resolve).
NetConnectRefused ==
    /\ Alive
    /\ connState = "pending"
    /\ connState' = "err"
    /\ UNCHANGED <<mainVars, netOps, elapsed, listener, backlog, established,
                   accepted, bind_addr, holders, tcpVars, udpVars, netVars,
                   ioVars, logVars>>
    /\ UNCHANGED acq_time

\* tcp.rs:29  the error of a failed connect under a timeout.
ConnectErrorText == "connect error"
\* A timed-out connect reported with the text of a failed one.
ConnectTimeoutAsError == "connect error"

\* tcp.rs:30  the error of a connect that timed out.
ConnectTimeoutText == "connect timed out"
\* tcp.rs:33,89,99  udp.rs:37,42,111,113  an io::Error passed on by `?`.
IoErrorText == "io error"

\* tcp.rs:28,33,41-58  Ok(Ok(s)) => s, then the relay is started.
TcpClientConnected ==
    /\ pc = "tcp_connect"
    /\ connState = "ok"
    /\ SpawnTcpTasks
    /\ pc' = "session"
    /\ elapsed' = 0
    /\ acq_time' = elapsed
    /\ UNCHANGED <<args, called, host, port, timeout, result, outcome, main_result, netOps,
                   connState, listener, backlog, established, accepted, bind_addr,
                   udpVars, netVars, ioVars, logVars>>

\* tcp.rs:29,33  the connect failed.
TcpClientConnectErr ==
    /\ pc = "tcp_connect"
    /\ connState = "err"
    /\ Return(IF ConnectDeadline # None THEN ConnectErrorText ELSE IoErrorText)
    /\ UNCHANGED <<args, called, host, port, timeout, outcome, main_result, netOps, elapsed,
                   connState, backlog, established, accepted, bind_addr,
                   tcpVars, udpVars, netVars, ioVars, logVars>>
    /\ UNCHANGED acq_time

\* tcp.rs:30  Err(_) => the timer won: the attempt is abandoned.
TcpClientConnectTimeout ==
    /\ pc = "tcp_connect"
    /\ connState = "pending"
    /\ Expired
    /\ connState' = "abandoned"
    /\ Return(ConnectTimeoutText)
    /\ UNCHANGED <<args, called, host, port, timeout, outcome, main_result, netOps, elapsed,
                   backlog, established, accepted, bind_addr,
                   tcpVars, udpVars, netVars, ioVars, logVars>>
    /\ UNCHANGED acq_time

\* ------------------------------------------------------------ session wait
\* A wait that is over as soon as either task has finished (a select).
TasksJoinedEither ==
    IF IsTcp THEN write_task = "done" \/ read_task = "done"
             ELSE send_task = "done" \/ recv_task = "done"

\* A wait that joins the local-to-remote direction only.
TasksJoinedSender == IF IsTcp THEN write_task = "done" ELSE send_task = "done"

\* tokio::join!(a, b) is ready when both tasks have finished.
TasksJoined ==
    IF IsTcp THEN write_task = "done" /\ read_task = "done"
             ELSE send_task = "done" /\ recv_task = "done"

\* A session that passes a failed copy on to its caller.
SessionResultOfTasks == IF w_res = "Err" \/ r_res = "Err" THEN IoErrorText ELSE "Ok"

\* tcp.rs:62,78,81 and 125,141,144  udp.rs:82,98,101 and 166,182,184
\* `let _ = tokio::join!(..)` discards what the tasks returned; then Ok(()).
SessionResult == "Ok"

\* tcp.rs:62-70,78 and 125-133,141  udp.rs:82-90,98 and 166-174,182
SessionFinished ==
    /\ pc = "session"
    /\ TasksJoined
    /\ outcome' = "finished"
    /\ Return(SessionResult)
    /\ UNCHANGED <<args, called, host, port, timeout, main_result, netOps, elapsed, connState,
                   backlog, established, accepted, bind_addr, tcpVars, udpVars,
                   netVars, ioVars, logVars>>
    /\ UNCHANGED acq_time

\* tcp.rs:71-75 and 134-138  udp.rs:91-95 and 175-179  the timer won; the
\* JoinHandles are dropped, which detaches the tasks: they keep running.
SessionTimeout ==
    /\ pc = "session"
    /\ ~TasksJoined
    /\ Expired
    /\ outcome' = "timed_out"
    /\ Return(SessionResult)
    /\ UNCHANGED <<args, called, host, port, timeout, main_result, netOps, elapsed, connState,
                   backlog, established, accepted, bind_addr, tcpVars, udpVars,
                   netVars, ioVars, logVars>>
    /\ UNCHANGED acq_time

\* ----------------------------------------------------------- tcp copy tasks
\* tcp.rs:47,112  io::copy(&mut stdin, &mut writer): a read of local input
\* that returns some bytes.
WriteTaskRead ==
    /\ write_task = "copy"
    /\ wbuf = <<>> /\ ~w_read_done
    /\ \E chunk \in Chunks(MaxInput - Len(inp)) :
         /\ wbuf' = chunk
         /\ inp' = inp \o chunk
    /\ UNCHANGED <<mainVars, netOps, elapsed, acqVars, holders, write_task,
                   read_task, rbuf, w_read_done, r_read_done, w_res, r_res,
                   udpVars, netVars, stdin_eof, out, faults, logVars>>

\* tcp.rs:47,112  the read of local input returns 0: end of input.
WriteTaskEof ==
    /\ write_task = "copy"
    /\ wbuf = <<>> /\ ~w_read_done
    /\ w_read_done' = TRUE
    /\ stdin_eof' = TRUE
    /\ UNCHANGED <<mainVars, netOps, elapsed, acqVars, holders, write_task,
                   read_task, wbuf, rbuf, r_read_done, w_res, r_res,
                   udpVars, netVars, inp, out, faults, logVars>>

\* A copy that hands the sink the last n bytes of the buffer, not the first.
CopyOutTail(sink, buf, n) == sink \o SubSeq(buf, Len(buf) - n + 1, Len(buf))

\* A copy that puts the bytes accepted in front of what the sink holds.
CopyOutFront(sink, buf, n) == Prefix(buf, n) \o sink

\* What one write of the copy buffer hands to the sink, n bytes being
\* accepted: the first n bytes of the buffer, appended.
CopyOut(sink, buf, n) == sink \o Prefix(buf, n)
\* What is left in the copy buffer after n bytes were accepted.
CopyRest(buf, n) == Suffix(buf, n)

\* tcp.rs:47,112  a (possibly partial) write of the buffer to the socket.
WriteTaskWrite ==
    /\ write_task = "copy"
    /\ wbuf # <<>>
    /\ \E n \in 1 .. Len(wbuf) :
         /\ c2p' = CopyOut(c2p, wbuf, n)
         /\ wbuf' = CopyRest(wbuf, n)
    /\ UNCHANGED <<mainVars, netOps, elapsed, acqVars, holders, write_task,
                   read_task, rbuf, w_read_done, r_read_done, w_res, r_res,
                   udpVars, p2c, c2pFin, p2cFin, ioVars, logVars>>

\* tcp.rs:47,112  io::copy returns Ok: end of input seen, buffer written.
WriteTaskCopyDone ==
    /\ write_task = "copy"
    /\ wbuf = <<>> /\ w_read_done
    /\ w_res' = "Ok"
    /\ write_task' = "shutdown"
    /\ UNCHANGED <<mainVars, netOps, elapsed, acqVars, holders, read_task,
                   wbuf, rbuf, w_read_done, r_read_done, r_res,
                   udpVars, netVars, ioVars, logVars>>

\* tcp.rs:47,112  io::copy returns Err: a read of local input or a write to
\* the socket failed.
WriteTaskCopyErr ==
    /\ write_task = "copy"
    /\ w_res' = "Err"
    /\ faults < MaxFaults
    /\ faults' = faults + 1
    /\ write_task' = "shutdown"
    /\ UNCHANGED <<mainVars, netOps, elapsed, acqVars, holders, read_task,
                   wbuf, rbuf, w_read_done, r_read_done, r_res,
                   udpVars, netVars, inp, stdin_eof, out, logVars>>

\* A local-to-remote task that closes the whole connection when it ends.
WriteTaskShutdownFull ==
    /\ write_task = "shutdown"
    /\ c2pFin' = TRUE
    /\ write_task' = "done"
    /\ read_task' = "cancelled"
    /\ holders' = {}
    /\ UNCHANGED <<mainVars, netOps, elapsed, acqVars,
                   wbuf, rbuf, w_read_done, r_read_done, w_res, r_res,
                   udpVars, c2p, p2c, p2cFin, ioVars, logVars>>

\* tcp.rs:49-51,113-115  writer.shutdown() whatever io::copy returned; the
\* task ends and the write half is dropped.
WriteTaskShutdown ==
    /\ write_task = "shutdown"
    /\ c2pFin' = TRUE
    /\ write_task' = "done"
    /\ holders' = holders \ {"write_task"}
    /\ UNCHANGED <<mainVars, netOps, elapsed, acqVars, read_task,
                   wbuf, rbuf, w_read_done, r_read_done, w_res, r_res,
                   udpVars, c2p, p2c, p2cFin, ioVars, logVars>>

\* tcp.rs:55,118  io::copy(&mut reader, &mut stdout): a read of the socket
\* that returns some of the bytes that have arrived.
ReadTaskRead ==
    /\ read_task = "copy"
    /\ rbuf = <<>> /\ ~r_read_done
    /\ p2c # <<>>
    /\ \E n \in 1 .. Len(p2c) :
         /\ rbuf' = Prefix(p2c, n)
         /\ p2c' = Suffix(p2c, n)
    /\ UNCHANGED <<mainVars, netOps, elapsed, acqVars, holders, write_task,
                   read_task, wbuf, w_read_done, r_read_done, w_res, r_res,
                   udpVars, c2p, c2pFin, p2cFin, ioVars, logVars>>

\* tcp.rs:55,118  the read of the socket returns 0: the peer has closed and
\* everything it sent has been read.
ReadTaskEof ==
    /\ read_task = "copy"
    /\ rbuf = <<>> /\ ~r_read_done
    /\ p2c = <<>> /\ p2cFin
    /\ r_read_done' = TRUE
    /\ UNCHANGED <<mainVars, netOps, elapsed, acqVars, holders, write_task,
                   read_task, wbuf, rbuf, w_read_done, w_res, r_res,
                   udpVars, netVars, ioVars, logVars>>

\* tcp.rs:55,118  a (possibly partial) write of the buffer to local output.
ReadTaskWrite ==
    /\ read_task = "copy"
    /\ rbuf # <<>>
    /\ \E n \in 1 .. Len(rbuf) :
         /\ out' = CopyOut(out, rbuf, n)
         /\ rbuf' = CopyRest(rbuf, n)
    /\ UNCHANGED <<mainVars, netOps, elapsed, acqVars, holders, write_task,
                   read_task, wbuf, w_read_done, r_read_done, w_res, r_res,
                   udpVars, netVars, inp, stdin_eof, faults, logVars>>

\* tcp.rs:55,118  io::copy returns Ok.
ReadTaskCopyDone ==
    /\ read_task = "copy"
    /\ rbuf = <<>> /\ r_read_done
    /\ r_res' = "Ok"
    /\ read_task' = "flush"
    /\ UNCHANGED <<mainVars, netOps, elapsed, acqVars, holders, write_task,
                   wbuf, rbuf, w_read_done, r_read_done, w_res,
                   udpVars, netVars, ioVars, logVars>>

\* tcp.rs:55,118  io::copy returns Err: a read of the socket or a write to
\* local output failed.
ReadTaskCopyErr ==
    /\ read_task = "copy"
    /\ r_res' = "Err"
    /\ faults < MaxFaults
    /\ faults' = faults + 1
    /\ read_task' = "flush"
    /\ UNCHANGED <<mainVars, netOps, elapsed, acqVars, holders, write_task,
                   wbuf, rbuf, w_read_done, r_read_done, w_res,
                   udpVars, netVars, inp, stdin_eof, out, logVars>>

\* tcp.rs:56-58,119-121  stdout.flush(); the task ends and the read half is
\* dropped.
ReadTaskFlush ==
    /\ read_task = "flush"
    /\ read_task' = "done"
    /\ holders' = holders \ {"read_task"}
    /\ UNCHANGED <<mainVars, netOps, elapsed, acqVars, write_task,
                   wbuf, rbuf, w_read_done, r_read_done, w_res, r_res,
                   udpVars, netVars, ioVars, logVars>>

\* ----------------------------------------------------------------- tcp peer
\* The connection exists at the peer.
Connected == IsTcp /\ (connState = "ok" \/ accepted > 0)

\* The peer echoes some of the bytes that have reached it.
PeerEcho ==
    /\ Alive /\ Connected /\ ~p2cFin
    /\ c2p # <<>>
    /\ \E n \in 1 .. Len(c2p) :
         /\ p2c' = p2c \o Prefix(c2p, n)
         /\ c2p' = Suffix(c2p, n)
    /\ UNCHANGED <<mainVars, netOps, elapsed, acqVars, holders, tcpVars,
                   udpVars, c2pFin, p2cFin, ioVars, logVars>>

\* The peer closes the connection.
PeerClose ==
    /\ Alive /\ Connected /\ ~p2cFin
    /\ p2cFin' = TRUE
    /\ UNCHANGED <<mainVars, netOps, elapsed, acqVars, holders, tcpVars,
                   udpVars, c2p, p2c, c2pFin, ioVars, logVars>>

\* -------------------------------------------------------------- tcp::listen
\* tcp.rs:85  format!("0.0.0.0:{}", port); udp.rs:107 likewise.
WildcardV4(p) == <<"0.0.0.0", p>>

\* tcp.rs:85-93  bind succeeds; accept is awaited.
TcpListenBind ==
    /\ pc = "tcp::listen"
    /\ netOps' = netOps \cup {"bind"}
    /\ listener' = "open"
    /\ bind_addr' = WildcardV4(port)
    /\ elapsed' = 0
    /\ pc' = "tcp_accept"
    /\ UNCHANGED <<args, called, host, port, timeout, result, outcome, main_result, connState,
                   backlog, established, accepted, holders, tcpVars, udpVars,
                   netVars, ioVars, logVars>>
    /\ UNCHANGED acq_time

\* tcp.rs:89  TcpListener::bind(...).await? fails (the port is in use).
TcpListenBindErr ==
    /\ pc = "tcp::listen"
    /\ netOps' = netOps \cup {"bind"}
    /\ Return(IoErrorText)
    /\ UNCHANGED <<args, called, host, port, timeout, outcome, main_result, elapsed, connState,
                   backlog, established, accepted, bind_addr, tcpVars, udpVars,
                   netVars, ioVars, logVars>>
    /\ UNCHANGED acq_time

\* The kernel completes a client's handshake on the listening socket and
\* queues the connection; it does so for as long as the socket is open.
ClientConnects ==
    /\ Alive
    /\ listener = "open"
    /\ established < MaxClients
    /\ established' = established + 1
    /\ backlog' = backlog + 1
    /\ UNCHANGED <<mainVars, netOps, elapsed, connState, listener, accepted,
                   bind_addr, holders, tcpVars, udpVars, netVars, ioVars, logVars>>
    /\ UNCHANGED acq_time

\* tcp.rs:96  the error of an accept that timed out.
AcceptTimeoutText == "accept timed out"
\* tcp.rs:95  the error of a failed accept under a timeout.
AcceptErrorText == "accept failed"

\* tcp.rs:94,99,107-121  accept returns a connection; the relay is started.
\* `listener` stays in scope: it is dropped when the function returns.
TcpListenAccepted ==
    /\ pc = "tcp_accept"
    /\ backlog > 0
    /\ backlog' = backlog - 1
    /\ accepted' = accepted + 1
    /\ SpawnTcpTasks
    /\ pc' = "session"
    /\ elapsed' = 0
    /\ UNCHANGED <<args, called, host, port, timeout, result, outcome, main_result, netOps,
                   connState, listener, established, bind_addr, udpVars,
                   netVars, ioVars, logVars>>
    /\ acq_time' = elapsed

\* tcp.rs:95,99  accept fails.
TcpListenAcceptErr ==
    /\ pc = "tcp_accept"
    /\ backlog = 0
    /\ Return(IF AcceptDeadline # None THEN AcceptErrorText ELSE IoErrorText)
    /\ UNCHANGED <<args, called, host, port, timeout, outcome, main_result, netOps, elapsed,
                   connState, backlog, established, accepted, bind_addr,
                   tcpVars, udpVars, netVars, ioVars, logVars>>
    /\ UNCHANGED acq_time

\* tcp.rs:96  Err(_) => the timer won.
TcpListenAcceptTimeout ==
    /\ pc = "tcp_accept"
    /\ backlog = 0
    /\ Expired
    /\ Return(AcceptTimeoutText)
    /\ UNCHANGED <<args, called, host, port, timeout, outcome, main_result, netOps, elapsed,
                   connState, backlog, established, accepted, bind_addr,
                   tcpVars, udpVars, netVars, ioVars, logVars>>
    /\ UNCHANGED acq_time

\* -------------------------------------------------------------- udp::client
\* udp.rs:25-28  format!("{}:{}", host, port).parse::<SocketAddr>()
ParsesAsSocketAddr(h) == h \in {"ip4", "ip6"}
remote_addr == <<host, port>>
\* udp.rs:28  the error of an address that does not parse.
ParseErrorText == "invalid remote address"

\* udp.rs:31-35  the wildcard address of the remote's family, port 0.
ClientBindAddr(h) == IF h = "ip4" THEN <<"0.0.0.0", 0>> ELSE <<"[::]", 0>>

\* udp.rs:48-49,65-66 and 117-121,142-143  the socket is shared by the
\* function and the two tasks it spawns.
SpawnUdpTasks ==
    /\ holders' = {"fn", "send_task", "recv_task"}
    /\ send_task' = "read"
    /\ recv_task' = "recv"
    /\ UNCHANGED <<sbuf, dbuf, lock, opt_peer>>

\* udp.rs:25-28  the remote address does not parse.
UdpClientParseErr ==
    /\ pc = "udp::client"
    /\ ~ParsesAsSocketAddr(host)
    /\ Return(ParseErrorText)
    /\ UNCHANGED <<args, called, host, port, timeout, outcome, main_result, netOps, elapsed,
                   connState, backlog, established, accepted, bind_addr,
                   tcpVars, udpVars, netVars, ioVars, logVars>>
    /\ UNCHANGED acq_time

\* udp.rs:37  UdpSocket::bind(bind_addr).await? fails; or, verbose only,
\* udp.rs:42  socket.local_addr()? fails and the socket is dropped.
UdpClientBindErr ==
    /\ pc = "udp::client"
    /\ ParsesAsSocketAddr(host)
    /\ netOps' = netOps \cup {"bind"}
    /\ Return(IoErrorText)
    /\ UNCHANGED <<args, called, host, port, timeout, outcome, main_result, elapsed,
                   connState, backlog, established, accepted, bind_addr,
                   tcpVars, udpVars, netVars, ioVars, logVars>>
    /\ UNCHANGED acq_time

\* udp.rs:25-78  the socket is bound and the two tasks are spawned.
UdpClientBound ==
    /\ pc = "udp::client"
    /\ ParsesAsSocketAddr(host)
    /\ netOps' = netOps \cup {"bind"}
    /\ bind_addr' = ClientBindAddr(host)
    /\ SpawnUdpTasks
    /\ UNCHANGED last_peer
    /\ pc' = "session"
    /\ elapsed' = 0
    /\ UNCHANGED <<args, called, host, port, timeout, result, outcome, main_result, connState,
                   listener, backlog, established, accepted, tcpVars,
                   netVars, ioVars, logVars>>
    /\ UNCHANGED acq_time

\* -------------------------------------------------------------- udp::listen
\* udp.rs:111  bind fails; or, verbose only, udp.rs:113 local_addr()? fails.
UdpListenBindErr ==
    /\ pc = "udp::listen"
    /\ netOps' = netOps \cup {"bind"}
    /\ Return(IoErrorText)
    /\ UNCHANGED <<args, called, host, port, timeout, outcome, main_result, elapsed,
                   connState, backlog, established, accepted, bind_addr,
                   tcpVars, udpVars, netVars, ioVars, logVars>>
    /\ UNCHANGED acq_time

\* A listener that starts with a peer already set.
InitialPeerSet == Some(PeerA)

\* udp.rs:116  Arc::new(Mutex::new(None))
InitialPeer == None

\* udp.rs:107-162  the socket is bound, last_peer starts as None and the two
\* tasks are spawned.
UdpListenBound ==
    /\ pc = "udp::listen"
    /\ netOps' = netOps \cup {"bind"}
    /\ bind_addr' = WildcardV4(port)
    /\ last_peer' = InitialPeer
    /\ SpawnUdpTasks
    /\ pc' = "session"
    /\ elapsed' = 0
    /\ UNCHANGED <<args, called, host, port, timeout, result, outcome, main_result, connState,
                   listener, backlog, established, accepted, tcpVars,
                   netVars, ioVars, logVars>>
    /\ UNCHANGED acq_time

\* ---------------------------------------------------------------- udp tasks
IsListen == called = "udp::listen"

\* Bytes of local input read so far.
InpBytes == IF IsUdp THEN SumLen(inp) ELSE Len(inp)

\* udp.rs:53,146  stdin.read(&mut buf) returns Ok(n), n > 0: at most the
\* buffer's length.  The chunk is the next one of local input.
SendTaskRead ==
    /\ send_task = "read"
    /\ \E chunk \in Chunks(Min(MaxInput - InpBytes, SendBufLen)) :
         /\ sbuf' = chunk
         /\ inp' = Append(inp, chunk)
    /\ marks' = IF IsListen
                  THEN [NoMarks EXCEPT !.rcvRead = Len(recvd), !.recRead = recorded]
                  ELSE NoMarks
    /\ send_task' = IF IsListen THEN "lock" ELSE "send"
    /\ UNCHANGED <<mainVars, netOps, elapsed, acqVars, holders, tcpVars,
                   recv_task, dbuf, last_peer, lock, opt_peer, netVars,
                   stdin_eof, out, faults, sends, recvd, writes, drops, recorded>>

\* udp.rs:54,147  Ok(0) => break; the task ends and drops its socket reference.
SendTaskEof ==
    /\ send_task = "read"
    /\ stdin_eof' = TRUE
    /\ send_task' = "done"
    /\ holders' = holders \ {"send_task"}
    /\ UNCHANGED <<mainVars, netOps, elapsed, acqVars, tcpVars,
                   recv_task, sbuf, dbuf, last_peer, lock, opt_peer, netVars,
                   inp, out, faults, logVars>>

\* udp.rs:59,157  Err(_) => break
SendTaskReadErr ==
    /\ send_task = "read"
    /\ faults < MaxFaults
    /\ faults' = faults + 1
    /\ send_task' = "done"
    /\ holders' = holders \ {"send_task"}
    /\ UNCHANGED <<mainVars, netOps, elapsed, acqVars, tcpVars,
                   recv_task, sbuf, dbuf, last_peer, lock, opt_peer, netVars,
                   inp, stdin_eof, out, logVars>>

\* udp.rs:150  send_peer.lock().await: the mutex is acquired when it is free.
SendTaskLock ==
    /\ send_task = "lock"
    /\ lock = "free"
    /\ lock' = "send_task"
    /\ send_task' = "snapshot"
    /\ UNCHANGED <<mainVars, netOps, elapsed, acqVars, holders, tcpVars,
                   recv_task, sbuf, dbuf, last_peer, opt_peer, netVars,
                   ioVars, logVars>>

\* udp.rs:150  the value copied out of the mutex.
Snapshot(peer) == peer

\* A send task that keeps the guard while it sends to the peer it read.
SendTaskSnapshotHolding ==
    /\ send_task = "snapshot"
    /\ opt_peer' = Snapshot(last_peer)
    /\ IF opt_peer' # None
         THEN /\ send_task' = "send"
              /\ lock' = lock
              /\ marks' = [marks EXCEPT !.rcvSnap = Len(recvd), !.recSnap = recorded]
              /\ UNCHANGED <<sbuf, drops>>
         ELSE /\ send_task' = "read"
              /\ lock' = "free"
              /\ marks' = NoMarks
              /\ drops' = Append(drops, Len(inp))
              /\ sbuf' = <<>>
    /\ UNCHANGED <<mainVars, netOps, elapsed, acqVars, holders, tcpVars,
                   recv_task, dbuf, last_peer, netVars, ioVars,
                   sends, recvd, writes, recorded>>

\* udp.rs:150-155  .clone() under the lock, the guard is dropped; with no
\* peer the chunk is dropped and the loop goes on.
SendTaskSnapshot ==
    /\ send_task = "snapshot"
    /\ lock' = "free"
    /\ opt_peer' = Snapshot(last_peer)
    /\ IF opt_peer' # None
         THEN /\ send_task' = "send"
              /\ marks' = [marks EXCEPT !.rcvSnap = Len(recvd), !.recSnap = recorded]
              /\ UNCHANGED <<sbuf, drops>>
         ELSE /\ send_task' = "read"
              /\ marks' = NoMarks
              /\ drops' = Append(drops, Len(inp))
              /\ sbuf' = <<>>
    /\ UNCHANGED <<mainVars, netOps, elapsed, acqVars, holders, tcpVars,
                   recv_task, dbuf, last_peer, netVars, ioVars,
                   sends, recvd, writes, recorded>>

\* udp.rs:55,152  the address a chunk is sent to.
SendTarget == IF IsListen THEN Get(opt_peer) ELSE remote_addr

\* The record of one send_to call: the chunk's number, its bytes, the address.
SendCall(ok) == [id |-> Len(inp), to |-> SendTarget, data |-> sbuf, ok |-> ok]

\* udp.rs:55,152  send_to(&buf[..n], addr) sends one datagram.
SendTaskSendTo ==
    /\ send_task = "send"
    /\ sends' = Append(sends, SendCall(TRUE))
    /\ c2p' = Append(c2p, [to |-> SendTarget, data |-> sbuf])
    /\ sbuf' = <<>>
    /\ marks' = NoMarks
    /\ send_task' = "read"
    /\ UNCHANGED <<mainVars, netOps, elapsed, acqVars, holders, tcpVars,
                   recv_task, dbuf, last_peer, lock, opt_peer, p2c, c2pFin,
                   p2cFin, ioVars, recvd, writes, drops, recorded>>

\* udp.rs:55,152  send_to fails; `let _ =` ignores it and the loop goes on.
SendTaskSendToErr ==
    /\ send_task = "send"
    /\ sends' = Append(sends, SendCall(FALSE))
    /\ faults < MaxFaults
    /\ faults' = faults + 1
    /\ sbuf' = <<>>
    /\ marks' = NoMarks
    /\ send_task' = "read"
    /\ UNCHANGED <<mainVars, netOps, elapsed, acqVars, holders, tcpVars,
                   recv_task, dbuf, last_peer, lock, opt_peer, netVars,
                   inp, stdin_eof, out, recvd, writes, drops, recorded>>

\* A receive buffer of one byte.
ReceivedShort(d) == [src |-> d.src, data |-> Prefix(d.data, Min(Len(d.data), 1))]

\* What recv_from leaves in the buffer: the payload, cut to the buffer.
Received(d) == [src |-> d.src, data |-> Prefix(d.data, Min(Len(d.data), RecvBufLen))]

\* udp.rs:68-69,124-125  recv_from returns the next datagram that arrived.
RecvTaskRecv ==
    /\ recv_task = "recv"
    /\ p2c # <<>>
    /\ dbuf' = Some(Received(Head(p2c)))
    /\ recvd' = Append(recvd, Received(Head(p2c)))
    /\ p2c' = Tail(p2c)
    /\ recv_task' = IF IsListen THEN "lock" ELSE "write"
    /\ UNCHANGED <<mainVars, netOps, elapsed, acqVars, holders, tcpVars,
                   send_task, sbuf, last_peer, lock, opt_peer, c2p, c2pFin,
                   p2cFin, ioVars, sends, writes, drops, recorded, marks>>

\* udp.rs:73,134  Err(_) => break; the task ends and drops its socket reference.
RecvTaskRecvErr ==
    /\ recv_task = "recv"
    /\ faults < MaxFaults
    /\ faults' = faults + 1
    /\ recv_task' = "done"
    /\ holders' = holders \ {"recv_task"}
    /\ UNCHANGED <<mainVars, netOps, elapsed, acqVars, tcpVars,
                   send_task, sbuf, dbuf, last_peer, lock, opt_peer, netVars,
                   inp, stdin_eof, out, logVars>>

\* udp.rs:128  recv_peer.lock().await
RecvTaskLock ==
    /\ recv_task = "lock"
    /\ lock = "free"
    /\ lock' = "recv_task"
    /\ recv_task' = "record"
    /\ UNCHANGED <<mainVars, netOps, elapsed, acqVars, holders, tcpVars,
                   send_task, sbuf, dbuf, last_peer, opt_peer, netVars,
                   ioVars, logVars>>

\* A record that clears a peer already stored instead of replacing it.
RecordOnce(cur, src) == IF cur = None THEN Some(src) ELSE None

\* A record that keeps the first peer it saw.
RecordFirst(cur, src) == IF cur = None THEN Some(src) ELSE cur

\* udp.rs:129  *guard = Some(src): the value stored over cur for a datagram
\* from src.
Record(cur, src) == Some(src)

\* udp.rs:127-130  *guard = Some(src); the guard is dropped.
RecvTaskRecord ==
    /\ recv_task = "record"
    /\ last_peer' = Record(last_peer, Get(dbuf).src)
    /\ lock' = "free"
    /\ recorded' = recorded + 1
    /\ recv_task' = "write"
    /\ UNCHANGED <<mainVars, netOps, elapsed, acqVars, holders, tcpVars,
                   send_task, sbuf, dbuf, opt_peer, netVars, ioVars,
                   sends, recvd, writes, drops, marks>>

\* udp.rs:70-71,131-132  write_all(&buf[..n]) and flush; the loop goes on.
RecvTaskWrite ==
    /\ recv_task = "write"
    /\ writes' = Append(writes, [data |-> Get(dbuf).data, ok |-> TRUE])
    /\ dbuf' = None
    /\ recv_task' = "recv"
    /\ UNCHANGED <<mainVars, netOps, elapsed, acqVars, holders, tcpVars,
                   send_task, sbuf, last_peer, lock, opt_peer, netVars,
                   ioVars, sends, recvd, drops, recorded, marks>>

\* udp.rs:70-71,131-132  the write fails; `let _ =` ignores it.
RecvTaskWriteErr ==
    /\ recv_task = "write"
    /\ writes' = Append(writes, [data |-> Get(dbuf).data, ok |-> FALSE])
    /\ faults < MaxFaults
    /\ faults' = faults + 1
    /\ dbuf' = None
    /\ recv_task' = "recv"
    /\ UNCHANGED <<mainVars, netOps, elapsed, acqVars, holders, tcpVars,
                   send_task, sbuf, last_peer, lock, opt_peer, netVars,
                   inp, stdin_eof, out, sends, recvd, drops, recorded, marks>>

\* ---------------------------------------------------------------- udp peers
\* udp::client: the remote echoes the next datagram that reached it.
UdpPeerEcho ==
    /\ Alive /\ called = "udp::client"
    /\ c2p # <<>>
    /\ p2c' = Append(p2c, [src |-> Head(c2p).to, data |-> Head(c2p).data])
    /\ c2p' = Tail(c2p)
    /\ UNCHANGED <<mainVars, netOps, elapsed, acqVars, holders, tcpVars,
                   udpVars, c2pFin, p2cFin, ioVars, logVars>>

\* udp::listen: a remote peer sends a datagram to the bound port.
UdpPeerSend ==
    /\ Alive /\ IsListen /\ bind_addr # None
    /\ Len(recvd) + Len(p2c) < MaxDgrams
    /\ \E p \in Peers, d \in Chunks(1) :
         p2c' = Append(p2c, [src |-> p, data |-> d])
    /\ UNCHANGED <<mainVars, netOps, elapsed, acqVars, holders, tcpVars,
                   udpVars, c2p, c2pFin, p2cFin, ioVars, logVars>>

\* --------------------------------------------------------------------- next
TcpClientNext ==
    \/ TcpClientStart \/ NetConnectOk \/ NetConnectRefused
    \/ TcpClientConnected \/ TcpClientConnectErr \/ TcpClientConnectTimeout

TcpListenNext ==
    \/ TcpListenBind \/ TcpListenBindErr \/ ClientConnects
    \/ TcpListenAccepted \/ TcpListenAcceptErr \/ TcpListenAcceptTimeout

TcpRelayNext ==
    \/ WriteTaskRead \/ WriteTaskEof \/ WriteTaskWrite \/ WriteTaskCopyDone
    \/ WriteTaskCopyErr \/ WriteTaskShutdown
    \/ ReadTaskRead \/ ReadTaskEof \/ ReadTaskWrite \/ ReadTaskCopyDone
    \/ ReadTaskCopyErr \/ ReadTaskFlush
    \/ PeerEcho \/ PeerClose

UdpStartNext ==
    \/ UdpClientParseErr \/ UdpClientBindErr \/ UdpClientBound
    \/ UdpListenBindErr \/ UdpListenBound

UdpRelayNext ==
    \/ SendTaskRead \/ SendTaskEof \/ SendTaskReadErr
    \/ SendTaskLock \/ SendTaskSnapshot \/ SendTaskSendTo \/ SendTaskSendToErr
    \/ RecvTaskRecv \/ RecvTaskRecvErr \/ RecvTaskLock \/ RecvTaskRecord
    \/ RecvTaskWrite \/ RecvTaskWriteErr
    \/ UdpPeerEcho \/ UdpPeerSend

Next ==
    \/ Main \/ MainReturn \/ Tick
    \/ TcpClientNext \/ TcpListenNext
    \/ UdpStartNext
    \/ SessionFinished \/ SessionTimeout
    \/ TcpRelayNext \/ UdpRelayNext

Spec == Init /\ [][Next]_vars

\* ------------------------------------------------- tcp client and echo peer
\* A tcp client with no timeout, connected to a peer that echoes every byte
\* and closes once it has seen end of data; no operation fails.
EchoArgs ==
    [listen |-> FALSE, udp |-> FALSE, port |-> Some(80), source_port |-> None,
     destination |-> Some("ip4"), timeout |-> None]

InitEcho == Init /\ args = EchoArgs

\* The echo peer closes after it has read end of data and echoed everything.
EchoPeerClose == PeerClose /\ c2pFin /\ c2p = <<>>

\* The steps of the program, the network and the peer.
EchoProgram ==
    \/ Main \/ TcpClientStart \/ NetConnectOk \/ TcpClientConnected
    \/ WriteTaskWrite \/ WriteTaskCopyDone \/ WriteTaskShutdown
    \/ ReadTaskRead \/ ReadTaskEof \/ ReadTaskWrite \/ ReadTaskCopyDone
    \/ ReadTaskFlush
    \/ PeerEcho \/ EchoPeerClose
    \/ SessionFinished \/ MainReturn

\* The steps of the user: more input, or its end.  The user may stop
\* feeding input at any point.
EchoInput == WriteTaskRead \/ WriteTaskEof

NextEcho == EchoProgram \/ EchoInput

\* The tokio scheduler runs every task that can make progress, and the
\* network and the peer deliver: the program does not stop while a step of
\* it is possible.
SpecEcho == InitEcho /\ [][NextEcho]_vars /\ WF_vars(EchoProgram)

\* ------------------------------------------------------------------- claims
\* C1: tcp client against an echo peer, no timeout, no I/O error: the bytes
\* written to local output are at every moment a prefix of the bytes fed to
\* local input, and eventually equal them exactly, whatever the chunk sizes.
C1_EchoRoundTrip ==
    /\ [](IsPrefix(out, inp))
    /\ <>[](out = inp)

\* C1 witness: two different bytes were fed, end of input was reached, and
\* both came back in order.
C1_Witness == out = <<0, 1>> /\ inp = <<0, 1>> /\ stdin_eof /\ pc = "exit"

\* The chunk the send task holds and has not yet passed to send_to.
SendInHand == IF send_task = "send" \/ (send_task = "cancelled" /\ sbuf # <<>>) THEN 1 ELSE 0
\* The datagram the receive task holds and has not yet written.
RecvInHand == IF recv_task = "write" \/ (recv_task = "cancelled" /\ dbuf # None) THEN 1 ELSE 0

\* C2: udp client: the i-th send_to call carries exactly the i-th chunk read
\* (1 .. 8192 bytes) to the fixed remote address, one call per chunk; the
\* i-th write carries exactly the i-th datagram received, one write per
\* datagram; and when no send failed (the echo peer got every datagram) the
\* i-th payload written is the i-th chunk read.
C2_DatagramBoundaries ==
    called = "udp::client" =>
        /\ Len(sends) + SendInHand = Len(inp)
        /\ \A i \in 1 .. Len(inp) : Len(inp[i]) \in 1 .. SendBufLen
        /\ \A i \in 1 .. Len(sends) :
             /\ sends[i].id = i
             /\ sends[i].data = inp[i]
             /\ sends[i].to = <<host, port>>
        /\ Len(writes) + RecvInHand = Len(recvd)
        /\ \A i \in 1 .. Len(writes) : writes[i].data = recvd[i].data
        /\ (\A j \in 1 .. Len(sends) : sends[j].ok) =>
              \A i \in 1 .. Len(writes) : writes[i].data = inp[i]

\* C2 witness: two chunks that differ were read, sent, echoed and written,
\* each by a write of its own.
C2_Witness ==
    /\ called = "udp::client"
    /\ inp = <<(<<0>>), (<<1>>)>>
    /\ Len(writes) = 2
    /\ writes[1].data = <<0>> /\ writes[2].data = <<1>>
    /\ writes[1].ok /\ writes[2].ok

\* A step in which the udp listener's send task passes its chunk to send_to.
ListenSendStep == IsListen /\ send_task = "send" /\ Len(sends') = Len(sends) + 1

\* C3 as stated: a chunk read after the k-th datagram was received, and sent
\* before any further datagram was received, goes to the sender of the k-th.
C3_Original ==
    [][(ListenSendStep /\ marks.rcvRead >= 1 /\ Len(recvd) = marks.rcvRead)
          => SendTarget = recvd[marks.rcvRead].src]_vars

\* C3 amended: a chunk read after the sender of the k-th datagram was
\* recorded in last_peer, whose snapshot was taken before any further sender
\* was recorded, goes to the sender of the k-th datagram; and every chunk
\* sent goes to the sender recorded last when its snapshot was taken.
C3_PeerTracking ==
    [][ListenSendStep =>
          /\ marks.recSnap >= 1
          /\ SendTarget = recvd[marks.recSnap].src
          /\ (marks.recRead >= 1 /\ marks.recSnap = marks.recRead)
                => SendTarget = recvd[marks.recRead].src]_vars

\* C3 witness: a first chunk went to A; B's datagram was then recorded, a
\* second chunk was read after that and is about to be sent to B.
C3_Witness ==
    /\ IsListen
    /\ Len(sends) = 1 /\ sends[1].to = PeerA
    /\ Len(recvd) = 2 /\ recvd[1].src = PeerA /\ recvd[2].src = PeerB
    /\ send_task = "send"
    /\ marks.recRead = 2 /\ marks.recSnap = 2
    /\ opt_peer = Some(PeerB)

\* A step of the udp listener's send task (not its cancellation).
ListenSendTaskStep(from) ==
    IsListen /\ send_task = from /\ send_task' # from /\ send_task' # "cancelled"

\* C4: udp listener, no datagram received so far: the send task never waits
\* for the lock; the chunk whose snapshot is taken is dropped: no send_to
\* call, no failure, no return, and the task goes back to read local input;
\* and no dropped chunk is ever passed to send_to later.
C4_DropWithoutPeer ==
    /\ []((IsListen /\ send_task = "lock" /\ Len(recvd) = 0) => lock = "free")
    /\ [](\A i \in 1 .. Len(sends) : \A j \in 1 .. Len(drops) : sends[i].id # drops[j])
    /\ [][(ListenSendTaskStep("snapshot") /\ Len(recvd) = 0) =>
            /\ send_task' = "read"
            /\ drops' = Append(drops, Len(inp))
            /\ sends' = sends /\ c2p' = c2p
            /\ faults' = faults
            /\ result' = result /\ pc' = pc]_vars

\* C4 witness: the first chunk was dropped, a peer then became known and the
\* second chunk was sent; the first was not.
C4_Witness ==
    /\ IsListen
    /\ drops = <<1>>
    /\ Len(sends) = 1 /\ sends[1].id = 2 /\ sends[1].ok

\* The peer has sent nothing and has not closed.
PeerSilent ==
    /\ p2c = <<>> /\ ~p2cFin
    /\ rbuf = <<>> /\ out = <<>>
    /\ recvd = <<>>

\* C5: with a timeout T, every entry point leaves its session wait within T
\* ticks of the relay starting; and when the peer has sent nothing and has
\* not closed, local input has not ended and nothing failed, what it
\* returns is Ok, by the timed-out arm, at T.
C5_SessionTimeout ==
    /\ (pc = "session" /\ timeout # None) => elapsed <= Get(timeout)
    /\ (pc \in {"ret", "exit"} /\ outcome # "none" /\ timeout # None
          /\ PeerSilent /\ ~stdin_eof /\ faults = 0)
         => /\ result = "Ok"
            /\ outcome = "timed_out"
            /\ elapsed = Get(timeout)

\* C5 witness: udp listen with a timeout of at least one tick has returned
\* by the timed-out arm with a silent peer and local input still open.
C5_Witness ==
    /\ called = "udp::listen"
    /\ pc = "ret" /\ outcome = "timed_out" /\ result = "Ok"
    /\ timeout # None /\ Get(timeout) >= 1 /\ elapsed = Get(timeout)
    /\ PeerSilent /\ ~stdin_eof /\ faults = 0

\* C6: tcp client with a timeout T: the connect wait never lasts beyond T;
\* when the deadline is reached with the connect still pending, the next
\* step of the function returns the timed-out error; that error is returned
\* for an abandoned attempt only and the errors of a failed connect for a
\* failed one only; and no copy task is started for a call that timed out.
C6_ConnectTimeout ==
    /\ []((pc = "tcp_connect" /\ timeout # None) => elapsed <= Get(timeout))
    /\ []((called = "tcp::client" /\ result = ConnectTimeoutText)
            => /\ connState = "abandoned"
               /\ write_task = "unspawned" /\ read_task = "unspawned"
               /\ holders = {})
    /\ []((called = "tcp::client" /\ result \notin {"none", "Ok", ConnectTimeoutText})
            => connState = "err")
    /\ [][(pc = "tcp_connect" /\ connState = "pending" /\ Expired /\ pc' # pc)
            => (pc' = "ret" /\ result' = ConnectTimeoutText)]_vars

\* C6 witness: a connect that stayed pending for a timeout of at least one
\* tick has returned the timed-out error.
C6_Witness ==
    /\ called = "tcp::client" /\ pc = "ret"
    /\ result = ConnectTimeoutText
    /\ Get(timeout) >= 1 /\ elapsed = Get(timeout)

TasksStarted ==
    \/ write_task # "unspawned" \/ read_task # "unspawned"
    \/ send_task # "unspawned" \/ recv_task # "unspawned"

SetupErrors ==
    {ConnectErrorText, ConnectTimeoutText, AcceptErrorText, AcceptTimeoutText,
     ParseErrorText, IoErrorText}

ConfigErrors ==
    {"listen mode requires a port (-p or positional)",
     "destination required in client mode",
     "port required in client mode"}

\* C7: an entry point returns an error only from its setup, before any task
\* is started; once the tasks are started it returns Ok however the session
\* ends, and so does main.
C7_OnlySetupErrors ==
    /\ result \notin {"none", "Ok"} =>
          (~TasksStarted /\ result \in SetupErrors /\ outcome = "none")
    /\ (TasksStarted /\ pc \in {"ret", "exit"}) => result = "Ok"
    /\ (TasksStarted /\ pc = "exit") => main_result = "Ok"
    /\ (pc = "exit" /\ main_result # "Ok") =>
          (main_result \in ConfigErrors \/ main_result = result)

\* C7 witness: a tcp session in which a copy failed has finished, and both
\* the entry point and main returned Ok.
C7_Witness ==
    /\ pc = "exit" /\ outcome = "finished"
    /\ w_res = "Err" /\ r_res = "Ok"
    /\ result = "Ok" /\ main_result = "Ok"

\* C8 as stated: when an entry point has returned, nothing holds the
\* endpoint, or a half of it, any more.
C8_EndpointClosedOnReturn == pc = "ret" => holders = {}

\* C9: a step of main fails with a configuration error exactly when, in
\* listen mode, the positional port and the -p port are both absent, or, in
\* client mode, the destination or the positional port is absent; otherwise
\* the entry point gets the positional port, or in listen mode the -p port
\* when there is no positional one; a run that failed so has attempted no
\* network operation and called no entry point; a listener binds the port
\* it was given.
C9_ConfigErrors ==
    /\ [][pc = "main" =>
            /\ (pc' = "exit") <=>
                  IF args.listen
                    THEN args.port = None /\ args.source_port = None
                    ELSE args.destination = None \/ args.port = None
            /\ pc' = "exit" =>
                  /\ main_result' \in ConfigErrors
                  /\ called' = "none"
            /\ pc' # "exit" =>
                  /\ called' # "none"
                  /\ port' = IF args.port # None THEN Get(args.port)
                                                 ELSE Get(args.source_port)
                  /\ ~args.listen => host' = Get(args.destination)]_vars
    /\ []((pc = "exit" /\ called = "none") =>
            /\ main_result \in ConfigErrors
            /\ netOps = {} /\ bind_addr = None /\ connState = "none"
            /\ listener = "none" /\ holders = {} /\ ~TasksStarted)
    /\ []((called \in {"tcp::listen", "udp::listen"} /\ bind_addr # None)
            => bind_addr = <<"0.0.0.0", port>>)

\* C9 witness: a run in listen mode with no port has failed, with no entry
\* point called and no network operation attempted.
C9_Witness ==
    /\ pc = "exit" /\ called = "none"
    /\ main_result = "listen mode requires a port (-p or positional)"
    /\ netOps = {} /\ bind_addr = None

\* C10 as stated: tcp listen accepts one connection; during the relay the
\* listening socket is gone and no further connection is established on the
\* port.
C10_ListenerDiscarded ==
    /\ [](accepted <= 1)
    /\ [][(called = "tcp::listen" /\ pc = "session") => established' = established]_vars
    /\ []((called = "tcp::listen" /\ pc = "session") => listener = "closed")

\* ------------------------------------------- tcp relay against an echo peer
\* tcp listen on a port, no timeout.
EchoListenArgs ==
    [listen |-> TRUE, udp |-> FALSE, port |-> Some(80), source_port |-> None,
     destination |-> None, timeout |-> None]

InitHalfClose == Init /\ args \in {EchoArgs, EchoListenArgs}

\* The steps of tcp listen up to the relay, and of the client that connects.
EchoListenProgram == TcpListenBind \/ ClientConnects \/ TcpListenAccepted

NextHalfClose == EchoProgram \/ EchoListenProgram \/ EchoInput

\* Either tcp entry point, no timeout, no failing operation, a peer that
\* echoes and closes after it has seen end of data; every task that can run
\* does run.
SpecHalfClose ==
    InitHalfClose /\ [][NextHalfClose]_vars
      /\ WF_vars(EchoProgram \/ EchoListenProgram)

\* Every byte the peer has sent so far: written to local output, in the copy
\* buffer of the remote-to-local task, or still in flight.
PeerSent == out \o rbuf \o p2c

\* C11: tcp client and tcp listen, when local input has ended: the
\* local-to-remote task shuts the write direction only, after everything it
\* read was written (the peer sees end of data); that step leaves the
\* remote-to-local task, its half of the stream and the bytes in flight
\* alone; and every byte the peer sends, also after the shutdown, is
\* eventually written to local output, in order.
C11_HalfClose ==
    /\ [][(write_task = "shutdown" /\ write_task' # write_task) =>
            /\ write_task' = "done" /\ c2pFin'
            /\ read_task' = read_task
            /\ ("read_task" \in holders') = ("read_task" \in holders)
            /\ UNCHANGED <<rbuf, r_read_done, p2c, p2cFin, out>>]_vars
    /\ []((c2pFin /\ Alive) => (stdin_eof /\ wbuf = <<>>))
    /\ [](c2pFin => IsPrefix(PeerSent, inp))
    /\ \A n \in 1 .. MaxInput :
         (c2pFin /\ Len(PeerSent) >= n) ~> (Len(out) >= n /\ IsPrefix(out, inp))

\* C11 witness: tcp listen; the write direction is shut and the
\* local-to-remote task has ended while a byte is still at the peer, which
\* has not closed and has yet to send it; the remote-to-local task is still
\* copying and holds its half.
C11_Witness ==
    /\ called = "tcp::listen"
    /\ write_task = "done" /\ c2pFin /\ ~p2cFin
    /\ c2p # <<>> /\ out = <<>>
    /\ read_task = "copy" /\ "read_task" \in holders

\* Both directional tasks of the session have run to their end.
BothTasksDone ==
    \/ IsTcp /\ write_task = "done" /\ read_task = "done"
    \/ IsUdp /\ send_task = "done" /\ recv_task = "done"

\* C12: the step in which one directional task finishes leaves the other
\* task and the main thread where they were; with no timeout an entry point
\* whose tasks were started has returned only if both tasks have finished;
\* so a tcp session whose peer has closed and whose remote-to-local task has
\* finished is still waiting while local input has not ended, and one whose
\* local input has ended and whose local-to-remote task has finished is
\* still waiting while the peer has not closed (nothing having failed).
C12_IndependentDirections ==
    /\ [][(read_task # "done" /\ read_task' = "done") =>
            UNCHANGED <<write_task, wbuf, w_read_done, w_res, pc, result>>]_vars
    /\ [][(write_task # "done" /\ write_task' = "done") =>
            UNCHANGED <<read_task, rbuf, r_read_done, r_res, pc, result>>]_vars
    /\ [][(recv_task # "done" /\ recv_task' = "done") =>
            UNCHANGED <<send_task, sbuf, opt_peer, pc, result>>]_vars
    /\ [][(send_task # "done" /\ send_task' = "done") =>
            UNCHANGED <<recv_task, dbuf, last_peer, pc, result>>]_vars
    /\ []((timeout = None /\ TasksStarted /\ pc \in {"ret", "exit"}) => BothTasksDone)
    /\ []((timeout = None /\ IsTcp /\ TasksStarted /\ faults = 0
             /\ read_task = "done" /\ ~stdin_eof)
            => (pc = "session" /\ write_task = "copy"))
    /\ []((timeout = None /\ IsTcp /\ TasksStarted /\ faults = 0
             /\ write_task = "done" /\ ~p2cFin)
            => (pc = "session" /\ read_task = "copy"))

\* C12 witness: tcp client, no timeout: the peer has closed and the
\* remote-to-local task has finished; the local-to-remote task has read a
\* chunk since and is still copying; the entry point is still waiting.
C12_Witness ==
    /\ called = "tcp::client" /\ timeout = None
    /\ p2cFin /\ read_task = "done" /\ out = <<>>
    /\ write_task = "copy" /\ wbuf # <<>> /\ c2p # <<>>
    /\ pc = "session"

\* A step in which a read, write, send or receive of a directional task fails.
FailingStep == faults' = faults + 1

\* C13 as stated: in the step in which an operation of a directional task
\* fails, that task leaves its loop (a tcp copy task goes on to its final
\* shutdown or flush, a udp task ends), the other task is where it was, and
\* the entry point does not return an error.
C13_CopyErrorEndsTask ==
    [][FailingStep =>
         /\ \/ write_task = "copy" /\ write_task' = "shutdown"
                /\ UNCHANGED <<read_task, rbuf>>
            \/ read_task = "copy" /\ read_task' = "flush"
                /\ UNCHANGED <<write_task, wbuf>>
            \/ send_task \notin {"done", "cancelled"} /\ send_task' = "done"
                /\ UNCHANGED <<recv_task, dbuf>>
            \/ recv_task \notin {"done", "cancelled"} /\ recv_task' = "done"
                /\ UNCHANGED <<send_task, sbuf>>
         /\ UNCHANGED <<pc, result>>]_vars

\* The errors of an acquisition step that timed out.
AcquireTimeoutTexts == {ConnectTimeoutText, AcceptTimeoutText}

\* Ticks since the acquisition step of a tcp entry point began.
TotalElapsed == IF pc \in {"tcp_connect", "tcp_accept"} THEN elapsed ELSE acq_time + elapsed

\* C14: tcp client and tcp listen with a timeout T: an acquisition timeout
\* is returned only while no task has been started and no session wait has
\* ended, never from the session wait; the step that starts the relay starts
\* the session clock at zero whatever the acquisition took; acquisition
\* takes at most T and the session wait at most T; and a session that timed
\* out did so after exactly T of its own, not T less the acquisition time.
C14_SeparateTimeouts ==
    /\ [](result \in AcquireTimeoutTexts => (~TasksStarted /\ outcome = "none"))
    /\ [][pc = "session" => result' \notin AcquireTimeoutTexts]_vars
    /\ [][(pc \in {"tcp_connect", "tcp_accept"} /\ pc' = "session") =>
            (elapsed' = 0 /\ acq_time' = elapsed /\ outcome' = "none")]_vars
    /\ []((IsTcp /\ pc = "session" /\ timeout # None) =>
            (acq_time <= Get(timeout) /\ elapsed <= Get(timeout)))
    /\ []((IsTcp /\ outcome = "timed_out") => elapsed = Get(timeout))

\* C14 witness: tcp listen with a timeout of two ticks accepted a
\* connection after one tick, and its session wait timed out two ticks
\* later, three ticks after the accept began.
C14_Witness ==
    /\ called = "tcp::listen" /\ pc = "ret"
    /\ timeout = Some(2) /\ acq_time = 1
    /\ outcome = "timed_out" /\ result = "Ok" /\ elapsed = 2

\* C15 as stated: tcp listen with a timeout T: from the start of the accept
\* to the return at most T has elapsed.  (Stated for an accept that
\* completed strictly before T, so that no violation rests on an accept that
\* completes at the very instant the timer is due.)
C15_OneOverallTimer ==
    (called = "tcp::listen" /\ timeout # None /\ acq_time < Get(timeout)
       /\ pc \in {"tcp_accept", "session", "ret"})
       => TotalElapsed <= Get(timeout)

\* The numbers of the chunks of local input passed to send_to, in call order.
SentIds == [i \in 1 .. Len(sends) |-> sends[i].id]

\* A sequence of numbers that increases strictly.
Increasing(q) == \A i, j \in 1 .. Len(q) : i < j => q[i] < q[j]

\* The numbers in a sequence.
Range(q) == {q[i] : i \in 1 .. Len(q)}

\* C16: tcp: the bytes read from local input are, in order, those still in
\* the local-to-remote buffer, in flight to the peer, echoed and in flight
\* back, in the remote-to-local buffer and written to local output; udp:
\* the chunks passed to send_to are chunks read, in the order read, each
\* passed once, and those never passed are exactly the ones the listener
\* dropped for lack of a peer (and the one in hand); the payloads written
\* to local output are the datagrams received, in the order received.
C16_OrderWithinDirection ==
    /\ IsTcp => (out \o rbuf \o p2c \o c2p \o wbuf = inp)
    /\ IsUdp =>
         /\ Increasing(SentIds) /\ Increasing(drops)
         /\ \A i \in 1 .. Len(sends) :
              sends[i].id \in 1 .. Len(inp) /\ sends[i].data = inp[sends[i].id]
         /\ Range(SentIds) \cap Range(drops) = {}
         /\ \E inHand \in {0, 1} :
              Range(SentIds) \cup Range(drops) = 1 .. (Len(inp) - inHand)
         /\ (~IsListen) => drops = <<>>
         /\ Len(writes) \in {Len(recvd), Len(recvd) - 1}
         /\ \A i \in 1 .. Len(writes) : writes[i].data = recvd[i].data

\* C16 witness: udp listen: the first chunk was dropped, the second, a
\* different one, was sent; two datagrams that differ were received and
\* written in the order received.
C16_Witness ==
    /\ IsListen
    /\ Len(inp) = 2 /\ inp[1] # inp[2]
    /\ drops = <<1>> /\ SentIds = <<2>>
    /\ Len(writes) = 2 /\ writes[1].data # writes[2].data

\* The senders of the datagrams whose sender has been recorded so far.
RecordedSenders == {recvd[i].src : i \in 1 .. recorded}

\* C17: udp listen: last_peer is None when the socket has just been bound;
\* the sender of every datagram received is recorded before its payload is
\* written, the datagrams being recorded in the order received; last_peer
\* is always the sender of the datagram recorded last (None before the
\* first); the record and the snapshot exclude each other under the lock;
\* and every snapshot taken is None or the sender of a datagram already
\* recorded, namely the one recorded last.
C17_PeerAddressLifecycle ==
    /\ [][(pc = "udp::listen" /\ pc' = "session") => last_peer' = None]_vars
    /\ [](IsListen =>
            /\ recorded \in {Len(recvd), Len(recvd) - 1} /\ recorded >= 0
            /\ Len(writes) <= recorded
            /\ last_peer = IF recorded = 0 THEN None ELSE Some(recvd[recorded].src)
            /\ (lock = "send_task") = (send_task = "snapshot")
            /\ (lock = "recv_task") = (recv_task = "record")
            /\ (opt_peer = None \/ Get(opt_peer) \in RecordedSenders))
    /\ [][(IsListen /\ send_task = "snapshot"
             /\ send_task' \notin {"snapshot", "cancelled"}) =>
            opt_peer' = IF recorded = 0 THEN None ELSE Some(recvd[recorded].src)]_vars

\* C17 witness: udp listen: a datagram from A and then one from B were
\* received, recorded and written; the send task's last snapshot, taken in
\* between, is A, and last_peer is B.
C17_Witness ==
    /\ IsListen
    /\ Len(recvd) = 2 /\ recvd[1].src = PeerA /\ recvd[2].src = PeerB
    /\ recorded = 2 /\ Len(writes) = 2
    /\ last_peer = Some(PeerB) /\ opt_peer = Some(PeerA)

\* Positions at which a udp task is in, or about to start, a socket send or
\* receive, a read of local input or a write to local output.
SendTaskInIo == send_task \in {"read", "send"}
RecvTaskInIo == recv_task \in {"recv", "write"}

\* C18: udp listen: the send task holds the lock only at its copy-out and
\* the receive task only at its assignment, never while in an I/O call; the
\* holder's next step releases it; a task waiting for the lock waits for a
\* holder that is at that single step, so the two never wait for each
\* other; and while one task is in an I/O call, however long, the lock is
\* free or held by the other task.
C18_LockScope ==
    /\ [](IsListen =>
            /\ lock \in {"free", "send_task", "recv_task"}
            /\ (lock = "send_task") => send_task = "snapshot"
            /\ (lock = "recv_task") => recv_task = "record"
            /\ SendTaskInIo => lock # "send_task"
            /\ RecvTaskInIo => lock # "recv_task"
            /\ (send_task = "lock" /\ lock # "free") => recv_task = "record"
            /\ (recv_task = "lock" /\ lock # "free") => send_task = "snapshot"
            /\ ~(send_task = "lock" /\ recv_task = "lock" /\ lock # "free"))
    /\ [][(lock = "send_task" /\ send_task' # send_task) => lock' = "free"]_vars
    /\ [][(lock = "recv_task" /\ recv_task' # recv_task) => lock' = "free"]_vars

\* C18 witness: udp listen: the send task has a chunk and a peer and has
\* not yet sent, and meanwhile the receive task has acquired the lock to
\* record the sender of another datagram.
C18_Witness ==
    /\ IsListen
    /\ send_task = "send" /\ sbuf # <<>>
    /\ lock = "recv_task" /\ recv_task = "record"
    /\ Len(recvd) = 2

\* C19: udp listen: last_peer, once set, is never None again; it is set
\* from the first record on; a snapshot taken after the first record is a
\* peer, the chunk is not dropped and goes on to send_to; and a chunk that
\* has a peer is passed to send_to before the task does anything else
\* (unless the process exits first).
C19_PeerNeverAbsentAgain ==
    /\ [][last_peer # None => last_peer' # None]_vars
    /\ []((IsListen /\ recorded >= 1) => last_peer # None)
    /\ [][(IsListen /\ recorded >= 1 /\ send_task = "snapshot"
             /\ send_task' \notin {"snapshot", "cancelled"}) =>
            (opt_peer' # None /\ send_task' = "send" /\ drops' = drops)]_vars
    /\ [][(IsListen /\ send_task = "send" /\ send_task' \notin {"send", "cancelled"}) =>
            (Len(sends') = Len(sends) + 1 /\ sends'[Len(sends')].id = Len(inp)
               /\ drops' = drops)]_vars

\* C19 witness: udp listen: a datagram from A and one from B were recorded,
\* and two chunks, read after the first record, were both passed to send_to;
\* nothing was dropped.
C19_Witness ==
    /\ IsListen
    /\ recorded = 2 /\ recvd[1].src = PeerA /\ recvd[2].src = PeerB
    /\ Len(sends) = 2 /\ drops = <<>>
    /\ sends[1].to = PeerA /\ sends[2].to = PeerB

\* C20: udp client and udp listen: the receive task finishes only by a
\* failed recv_from; so with no timeout the entry point has returned only
\* if a receive failed, and as long as nothing has failed it is still in
\* its session wait with the receive task running, also after local input
\* has ended and the send task has finished.
C20_UdpNeverEndsOnItsOwn ==
    /\ [][(recv_task # "done" /\ recv_task' = "done") =>
            (recv_task = "recv" /\ FailingStep)]_vars
    /\ []((IsUdp /\ timeout = None /\ TasksStarted /\ pc \in {"ret", "exit"}) =>
            (recv_task = "done" /\ faults >= 1))
    /\ []((IsUdp /\ timeout = None /\ TasksStarted /\ faults = 0) =>
            (pc = "session" /\ recv_task \in {"recv", "lock", "record", "write"}))

\* C20 witness: udp client, no timeout: local input has ended and the send
\* task has finished, a datagram was received and written, none is in
\* flight; the receive task is back in recv_from and the entry point waits.
C20_Witness ==
    /\ called = "udp::client" /\ timeout = None
    /\ stdin_eof /\ send_task = "done"
    /\ Len(writes) = 1 /\ p2c = <<>> /\ c2p = <<>>
    /\ recv_task = "recv" /\ pc = "session" /\ faults = 0

====
